---- MODULE Spec2Model ----
(***************************************************************************)
(* Model of portfolio_optimizer.ipynb: the mean-variance frontier loop.    *)
(*                                                                         *)
(* Numbers are exact scaled integers.                                      *)
(*   mean_returns[i]   stands for  mean_returns[i] / MeanScale             *)
(*   cov_matrix[i][j]  stands for  cov_matrix[i][j] / CovScale             *)
(*   a weight vector x stands for  x[i] / Denom(n), x[i] an integer        *)
(*   a target t        stands for  t / ((GridPoints - 1) * MeanScale)      *)
(*   a realized return stands for  r / (Denom(n) * MeanScale)              *)
(*   a variance v      stands for  v / (Denom(n)^2 * CovScale)             *)
(*   a risk s          stands for  s / (Denom(n) * CovScale)               *)
(***************************************************************************)
EXTENDS Integers, Sequences, FiniteSets, TLC

\* number of grid targets (np.linspace(..., 50) in the notebook), scaled down
GridPoints == 5
\* asset means are drawn from 1..MaxMean, asset variances from 1..MaxVar
MaxMean == 3
MaxVar == 2

\* magnitude of the data: daily mean returns are of the order 1e-3,
\* daily covariances of the order 1e-4 (the notebook's printed statistics)
MeanScale == 1000
CovScale == 10000
\* scipy.optimize.minimize(method='SLSQP') is called with its default options:
\* ftol (acc) = 1e-6 = 1 / AccInv, maxiter = 100
AccInv == 1000000
MaxIter == 100

\* the number of sample lines of the report
SamplePoints == 5

AssetCounts == {2, 3}

Abs(a) == IF a < 0 THEN -a ELSE a

\* weights are multiples of 1 / Denom(n); the uniform vector 1/n and the
\* two-asset mixes that attain every grid target are on this grid
Denom(n) == n * (GridPoints - 1)

RECURSIVE SumTo(_, _)
SumTo(f, n) == IF n = 0 THEN 0 ELSE f[n] + SumTo(f, n - 1)

\* np.sum(x)
Sum(x) == SumTo(x, Len(x))

\* np.sum(a * b), np.dot(a, b) of two vectors
Dot(a, b) == SumTo([i \in 1..Len(a) |-> a[i] * b[i]], Len(a))

\* np.dot(cov_matrix, weights)
MatVec(C, x) == [i \in 1..Len(C) |-> Dot(C[i], x)]

\* min_variance(weights, cov_matrix): w.T C w
min_variance(weights, cov) == Dot(weights, MatVec(cov, weights))

\* portfolio_performance(weights, mean_returns, cov_matrix)
portfolio_performance(weights, mean, cov) ==
    [ret |-> Dot(mean, weights),
     var |-> Dot(weights, MatVec(cov, weights))]

RECURSIVE SqrtSearch(_, _, _)
SqrtSearch(v, lo, hi) ==
    IF lo >= hi THEN lo
    ELSE LET mid == (lo + hi + 1) \div 2
         IN  IF mid * mid <= v THEN SqrtSearch(v, mid, hi)
             ELSE SqrtSearch(v, lo, mid - 1)

\* the value that stands for numpy's NaN; no quantity of the model has it
NaN == -999999

\* np.sqrt(var): NaN for a negative argument, else the square root, rounded
\* down to the risk resolution
\* sqrt(v / (D^2 CovScale)) = sqrt(v CovScale) / (D CovScale)
npsqrt(v) ==
    IF v < 0 THEN NaN
    ELSE SqrtSearch(v * CovScale, 0,
                    IF v * CovScale < 46340 THEN v * CovScale ELSE 46340)

(***************************************************************************)
(* scipy.optimize.minimize(min_variance, init_guess, method='SLSQP',       *)
(* bounds, constraints) as optimize_portfolio calls it.  SLSQP iterates:   *)
(* it solves a least-squares subproblem for a step s from the iterate x    *)
(* (objective 1/2 s.B.s + g.s with g the gradient 2 C x, the linearized    *)
(* constraints as equalities, the bounds on x + s), ends with success when *)
(* |g.s| < acc and the constraint violation at x is < acc, otherwise moves *)
(* to x + s and ends with success when |f(x + s) - f(x)| < acc or          *)
(* |s| < acc, and the violation at x + s is < acc.  It ends without        *)
(* success when the subproblem has no solution (exit mode 4) or after      *)
(* maxiter iterations (exit mode 9).                                       *)
(*                                                                         *)
(* The constraints here are linear, so the subproblem's feasible set is    *)
(* the problem's.  B starts as the identity and is kept at it (its BFGS    *)
(* update is left out), the step is taken in full (no line search), and    *)
(* the multiplier-weighted violation that SLSQP adds to |g.s| is left out  *)
(* (it vanishes with the violation).  Iterates are weight vectors of the   *)
(* grid.  acc is absolute: 1e-6 whatever the scale of the objective.       *)
(***************************************************************************)

\* init_guess = num_assets * [1. / num_assets,]
init_guess(n) == [i \in 1..n |-> Denom(n) \div n]

\* bounds that let a weight go below 0: short positions allowed
bounds_short(n) == [i \in 1..n |-> <<-Denom(n), Denom(n)>>]

\* bounds = tuple((0, 1) for asset in range(num_assets))
bounds(n) == [i \in 1..n |-> <<0, Denom(n)>>]

\* the sum constraint without its "- 1"
constraint_sum_unnormalized(x) == Sum(x)

\* {'type': 'eq', 'fun': lambda x: np.sum(x) - 1}, in units 1 / D
constraint_sum(x) == Sum(x) - Denom(Len(x))

\* a return constraint that constrains nothing
constraint_return_missing(x, mean, target) == 0

\* {'type': 'eq', 'fun': lambda x: np.sum(mean_returns * x) - target_return},
\* in units 1 / (D (GridPoints - 1) MeanScale)
constraint_return(x, mean, target) ==
    Dot(mean, x) * (GridPoints - 1) - Denom(Len(x)) * target

\* the vectors of length n within the bounds b whose entries sum to total
RECURSIVE Points(_, _, _)
Points(n, total, b) ==
    IF n = 1
    THEN IF b[1][1] <= total /\ total <= b[1][2] THEN {<<total>>} ELSE {}
    ELSE UNION {{Append(p, v) : p \in Points(n - 1, total - v, b)} :
                v \in b[n][1]..b[n][2]}

\* the vectors that satisfy the bounds and both equality constraints
Feasible(n, mean, target, b) ==
    {x \in Points(n, Denom(n), b) :
        constraint_sum(x) = 0 /\ constraint_return(x, mean, target) = 0}

\* sum of the absolute constraint values at x (h2, h3 of SLSQP), in units
\* 1 / (D (GridPoints - 1) MeanScale)
Violation(x, mean, target) ==
    Abs(constraint_sum(x)) * (GridPoints - 1) * MeanScale
    + Abs(constraint_return(x, mean, target))

\* Violation < acc
ViolationBelowAcc(x, mean, target) ==
    Violation(x, mean, target)
        <= (Denom(Len(x)) * (GridPoints - 1) * MeanScale - 1) \div AccInv

\* the subproblem's objective 1/2 |y - x|^2 + g.(y - x) with g = 2 C x,
\* in units 1 / (D^2 CovScale)
StepCost(x, y, cov) ==
    LET d == [i \in 1..Len(x) |-> y[i] - x[i]]
    IN  (CovScale \div 2) * Dot(d, d) + 2 * Dot(MatVec(cov, x), d)

RECURSIVE LexLess(_, _, _)
LexLess(a, b, i) ==
    IF i > Len(a) THEN FALSE
    ELSE IF a[i] # b[i] THEN a[i] < b[i]
    ELSE LexLess(a, b, i + 1)

\* the least of the pairs <<cost, vector>> in K; equal costs, which the grid
\* alone produces, are ordered lexicographically
LeastCost(K) ==
    CHOOSE a \in K : \A b \in K :
        \/ a = b
        \/ a[1] < b[1]
        \/ a[1] = b[1] /\ LexLess(a[2], b[2], 1)

\* the minimizer of the subproblem among the feasible vectors F (F # {})
LSQ(x, F, cov) ==
    (CHOOSE a \in {LeastCost(K) : K \in {{<<StepCost(x, z, cov), z>> : z \in F}}} :
        TRUE)[2]

\* |g.s| < acc, with s = y - x
DirectionalBelowAcc(x, y, cov) ==
    LET d == [i \in 1..Len(x) |-> y[i] - x[i]]
    IN  2 * Abs(Dot(MatVec(cov, x), d))
            <= (Denom(Len(x)) * Denom(Len(x)) * CovScale - 1) \div AccInv

\* |f(y) - f(x)| < acc
ObjectiveChangeBelowAcc(x, y, cov) ==
    Abs(min_variance(y, cov) - min_variance(x, cov))
        <= (Denom(Len(x)) * Denom(Len(x)) * CovScale - 1) \div AccInv

\* |s| < acc, with s = y - x
StepBelowAcc(x, y) ==
    LET d == [i \in 1..Len(x) |-> y[i] - x[i]]
    IN  Dot(d, d) <= ((Denom(Len(x)) * Denom(Len(x)) - 1) \div AccInv) \div AccInv

\* one pass of the iteration at the iterate x, y the subproblem's solution:
\* the result, or status -1 to go on from y
slsqp_pass(x, y, cov, mean, target) ==
    IF DirectionalBelowAcc(x, y, cov) /\ ViolationBelowAcc(x, mean, target)
    THEN [success |-> TRUE, status |-> 0, x |-> x]
    ELSE IF (ObjectiveChangeBelowAcc(x, y, cov) \/ StepBelowAcc(x, y))
            /\ ViolationBelowAcc(y, mean, target)
    THEN [success |-> TRUE, status |-> 0, x |-> y]
    ELSE [success |-> FALSE, status |-> -1, x |-> y]

\* the SLSQP iteration from the iterate x over the feasible vectors F; the
\* result is scipy's OptimizeResult: success, status (0 converged,
\* 4 constraints incompatible, 9 iteration limit reached) and x
RECURSIVE slsqp(_, _, _, _, _)
slsqp(x, iter, F, cov, ctx) ==
    IF iter > MaxIter THEN [success |-> FALSE, status |-> 9, x |-> x]
    ELSE IF F = {} THEN [success |-> FALSE, status |-> 4, x |-> x]
    ELSE CHOOSE r \in
            {IF p.status = -1 THEN slsqp(p.x, iter + 1, F, cov, ctx) ELSE p :
                p \in {slsqp_pass(x, y, cov, ctx.mean, ctx.target) :
                        y \in {LSQ(x, F, cov)}}} : TRUE

\* optimize_portfolio(target_return, mean_returns, cov_matrix)
optimize_portfolio(target_return, mean, cov) ==
    LET num_assets == Len(mean)
    IN  CHOOSE r \in
            {slsqp(init_guess(num_assets), 1, F, cov,
                   [mean |-> mean, target |-> target_return]) :
                F \in {Feasible(num_assets, mean, target_return,
                                bounds(num_assets))}} : TRUE

(***************************************************************************)
(* The inputs: mean_returns = returns.mean(), cov_matrix = returns.cov().  *)
(* A sample covariance matrix is symmetric and positive semi-definite.     *)
(***************************************************************************)

\* the matrix with variances v on the diagonal and covariance c elsewhere
CovOf(v, c) ==
    [i \in 1..Len(v) |-> [j \in 1..Len(v) |-> IF i = j THEN v[i] ELSE c]]

Minor2(C, i, j) == C[i][i] * C[j][j] - C[i][j] * C[j][i]

Det3(C) ==
    C[1][1] * (C[2][2] * C[3][3] - C[2][3] * C[3][2])
    - C[1][2] * (C[2][1] * C[3][3] - C[2][3] * C[3][1])
    + C[1][3] * (C[2][1] * C[3][2] - C[2][2] * C[3][1])

\* positive semi-definite: every principal minor is non-negative
IsPSD(C) ==
    /\ \A i \in 1..Len(C) : C[i][i] >= 0
    /\ \A i, j \in 1..Len(C) : i < j => Minor2(C, i, j) >= 0
    /\ Len(C) = 3 => Det3(C) >= 0

\* the scenario m = [0.001, 0.002], C = [[0.0001, 0], [0, 0.0004]]
Scenario2 == [mean |-> <<1, 2>>, cov |-> <<<<1, 0>>, <<0, 4>>>>]

\* the assets are numbered by ascending mean; variances and covariance vary
\* freely, so every universe of the value ranges occurs up to the numbering
UniversesOf(n) ==
    {u \in [mean : {m \in [1..n -> 1..MaxMean] :
                        \A i \in 1..(n - 1) : m[i] <= m[i + 1]},
            cov : {CovOf(v, c) : v \in [1..n -> 1..MaxVar], c \in {-1, 0, 1}}] :
        IsPSD(u.cov)}

Universes == UNION {UniversesOf(n) : n \in AssetCounts} \cup {Scenario2}

RECURSIVE MinTo(_, _)
MinTo(f, n) ==
    IF n = 1 THEN f[1]
    ELSE LET r == MinTo(f, n - 1) IN IF f[n] < r THEN f[n] ELSE r

RECURSIVE MaxTo(_, _)
MaxTo(f, n) ==
    IF n = 1 THEN f[1]
    ELSE LET r == MaxTo(f, n - 1) IN IF f[n] > r THEN f[n] ELSE r

\* the first mean instead of the largest one
first_mean(f) == f[1]

\* mean_returns.min(), mean_returns.max()
Min(f) == MinTo(f, Len(f))
Max(f) == MaxTo(f, Len(f))

\* np.linspace(start, stop, GridPoints), in units 1 / (GridPoints - 1)
linspace(start, stop) ==
    [j \in 1..GridPoints |-> start * (GridPoints - 1) + (j - 1) * (stop - start)]

(***************************************************************************)
(* np.argsort(a): the indices that sort a, equal keys in their own order   *)
(* (insertion sort, the path numpy's sort takes on short arrays).          *)
(***************************************************************************)

\* the order numpy sorts in: NaN after every number
np_le(a, b) == b = NaN \/ (a # NaN /\ a <= b)

RECURSIVE InsertIndex(_, _, _, _)
InsertIndex(s, i, a, k) ==
    \* s: sorted indices, i: the index to insert, k: position scanned from the end
    IF k = 0 \/ np_le(a[s[k]], a[i])
    THEN SubSeq(s, 1, k) \o <<i>> \o SubSeq(s, k + 1, Len(s))
    ELSE InsertIndex(s, i, a, k - 1)

RECURSIVE ArgsortTo(_, _)
ArgsortTo(a, n) ==
    IF n = 0 THEN <<>>
    ELSE LET s == ArgsortTo(a, n - 1) IN InsertIndex(s, n, a, Len(s))

argsort(a) == ArgsortTo(a, Len(a))

\* np.array(a)[indices]
Take(a, indices) == [k \in 1..Len(indices) |-> a[indices[k]]]

(***************************************************************************)
(* The notebook's state.                                                   *)
(***************************************************************************)
VARIABLES
    mean_returns,          \* returns.mean()
    cov_matrix,            \* returns.cov()
    target_returns,        \* the grid of targets
    pc,                    \* "loop", "sort", "done"
    idx,                   \* position of the for loop in target_returns
    portfolio_returns,     \* accumulators of the frontier loop
    portfolio_variances,
    portfolio_weights,
    stdout,                \* the lines printed by the loop
    sorted_indices,
    sorted_risks,
    sorted_returns,
    report,                \* the lines printed by the cell that sorts and reports
    solved,                \* history: every call of optimize_portfolio, with its result
    origin                 \* history: for each accumulated point, its call in solved

vars == <<mean_returns, cov_matrix, target_returns, pc, idx, portfolio_returns,
          portfolio_variances, portfolio_weights, stdout, sorted_indices,
          sorted_risks, sorted_returns, report, solved, origin>>

num_assets == Len(mean_returns)

\* a grid that starts at zero instead of the least mean
grid_from_zero(mean) == linspace(0, Max(mean))

\* target_returns = np.linspace(mean_returns.min(), mean_returns.max(), 50)
grid(mean) == linspace(Min(mean), Max(mean))

InitWith(u, targets) ==
    /\ mean_returns = u.mean
    /\ cov_matrix = u.cov
    /\ target_returns = targets
    /\ pc = "loop"
    /\ idx = 1
    /\ portfolio_returns = <<>>
    /\ portfolio_variances = <<>>
    /\ portfolio_weights = <<>>
    /\ stdout = <<>>
    /\ sorted_indices = <<>>
    /\ sorted_risks = <<>>
    /\ sorted_returns = <<>>
    /\ report = <<>>
    /\ solved = <<>>
    /\ origin = <<>>

Init == \E u \in Universes : InitWith(u, grid(u.mean))

\* the result appended whatever the solver reported
accept_any(opt) == TRUE

\* if opt.success:
accepted(opt) == opt.success

\* a loop that a failed solve ends (break in the else branch)
next_index_break(i, opt) == IF opt.success THEN i + 1 ELSE GridPoints + 1

\* the for loop goes on to the next target after either branch
next_index(i, opt) == i + 1

\* a failure that prints nothing
print_nothing(out, target) == out

\* print("Optimization failed for target return: ", target)
print_failed(out, target) ==
    Append(out, [text |-> "Optimization failed for target return: ",
                 target |-> target])

\* a call that starts from the weights accepted last instead of init_guess
call_warm(target) ==
    IF portfolio_weights = <<>>
    THEN optimize_portfolio(target, mean_returns, cov_matrix)
    ELSE CHOOSE r \in
            {slsqp(portfolio_weights[Len(portfolio_weights)], 1, F, cov_matrix,
                   [mean |-> mean_returns, target |-> target]) :
                F \in {Feasible(num_assets, mean_returns, target,
                                bounds(num_assets))}} : TRUE

\* opt = optimize_portfolio(target, mean_returns, cov_matrix)
call_optimize(target) == optimize_portfolio(target, mean_returns, cov_matrix)

\* the result of a call that SLSQP ends without convergence for numerical
\* reasons (exit mode 9, iteration limit reached): no success, x an iterate
NotConverged(n) == [success |-> FALSE, status |-> 9, x |-> init_guess(n)]

\* the body of "for target in target_returns:" after the call has returned
\* opt, with ret and risk the values of portfolio_performance and np.sqrt
LoopBody(opt, ret, risk) ==
    LET target == target_returns[idx]
    IN  /\ solved' = Append(solved, [target |-> target, opt |-> opt])
        /\ IF accepted(opt)
           THEN /\ portfolio_returns' = Append(portfolio_returns, ret)
                /\ portfolio_variances' = Append(portfolio_variances, risk)
                /\ portfolio_weights' = Append(portfolio_weights, opt.x)
                /\ origin' = Append(origin, Len(solved) + 1)
                /\ UNCHANGED stdout
           ELSE /\ stdout' = print_failed(stdout, target)
                /\ UNCHANGED <<portfolio_returns, portfolio_variances,
                               portfolio_weights, origin>>
        /\ idx' = next_index(idx, opt)
        /\ pc' = IF idx' > Len(target_returns) THEN "sort" ELSE "loop"
        /\ UNCHANGED <<mean_returns, cov_matrix, target_returns,
                       sorted_indices, sorted_risks, sorted_returns, report>>

\* one iteration of "for target in target_returns:"; exact says whether the
\* solve follows the exact-arithmetic iteration
Iterate(exact) ==
    /\ pc = "loop"
    /\ idx <= Len(target_returns)
    /\ \E opt \in {IF exact
                   THEN call_optimize(target_returns[idx])
                   ELSE NotConverged(num_assets)} :
       LET perf == portfolio_performance(opt.x, mean_returns, cov_matrix)
       IN  LoopBody(opt, perf.ret, npsqrt(perf.var))

\* sorted_risks = np.array(portfolio_variances)[sorted_indices]
risks_sorted(indices) == Take(portfolio_variances, indices)

\* the returns left in the order of the loop
returns_unsorted(indices) == portfolio_returns

\* sorted_returns = np.array(portfolio_returns)[sorted_indices]
returns_sorted(indices) == Take(portfolio_returns, indices)

\* an integer division that rounds half to even
RoundDiv(a, b) ==
    LET q == a \div b
        r == a % b
    IN  IF 2 * r > b \/ (2 * r = b /\ q % 2 = 1) THEN q + 1 ELSE q

\* f"{target:.4f}": the target rounded to four decimals, in units 1e-4
fmt4(target) ==
    IF target = NaN THEN NaN
    ELSE RoundDiv(target * 10000, (GridPoints - 1) * MeanScale)

\* np.linspace(0, n - 1, 5, dtype=int), n >= 1: positions counted from 1
sample_indices(n) ==
    [j \in 1..SamplePoints |-> ((j - 1) * (n - 1)) \div (SamplePoints - 1) + 1]

\* the lines of "for i in np.linspace(...): print(...)"; with no accepted
\* point the first index is out of bounds and the cell ends in an IndexError
sample_report(targets, weights) ==
    IF Len(weights) = 0
    THEN <<[text |-> "IndexError: index 0 is out of bounds"]>>
    ELSE [j \in 1..SamplePoints |->
            LET i == sample_indices(Len(weights))[j]
            IN  [text |-> "Target Return: ", target |-> fmt4(targets[i]),
                 weights |-> weights[i]]]

\* the cell after the loop: the frontier sorted by risk, then the report of
\* sample weights
Sort ==
    /\ pc = "sort"
    /\ sorted_indices' = argsort(portfolio_variances)
    /\ sorted_risks' = risks_sorted(sorted_indices')
    /\ sorted_returns' = returns_sorted(sorted_indices')
    /\ report' = sample_report(target_returns, portfolio_weights)
    /\ pc' = "done"
    /\ UNCHANGED <<mean_returns, cov_matrix, target_returns, idx,
                   portfolio_returns, portfolio_variances, portfolio_weights,
                   stdout, solved, origin>>

Next == Iterate(TRUE) \/ Sort

Spec == Init /\ [][Next]_vars

(***************************************************************************)
(* The loop with a solver that may also end without convergence: SLSQP     *)
(* works in floating point, and which calls end in exit mode 9 is not      *)
(* decided by the notebook.  The universes are the two-asset ones and the  *)
(* three-asset ones of unit variance.                                      *)
(***************************************************************************)
LoopUniverses ==
    UniversesOf(2)
    \cup {u \in UniversesOf(3) :
            \A i, j \in 1..3 : u.cov[i][j] = IF i = j THEN 1 ELSE 0}

InitNum == \E u \in LoopUniverses : InitWith(u, grid(u.mean))

NextNum == (\E exact \in BOOLEAN : Iterate(exact)) \/ Sort

SpecNum == InitNum /\ [][NextNum]_vars

(***************************************************************************)
(* optimize_portfolio and the loop body on targets outside the range of    *)
(* the means: the grid of line 226 continued by one more step below        *)
(* min(m) (below = 1) and above max(m) (above = 1).                        *)
(***************************************************************************)
extended_grid(mean, below, above) ==
    [j \in 1..(GridPoints + below + above) |->
        Min(mean) * (GridPoints - 1) + (j - 1 - below) * (Max(mean) - Min(mean))]

InitWide ==
    \E u \in LoopUniverses : \E below, above \in 0..1 :
        InitWith(u, extended_grid(u.mean, below, above))

SpecWide == InitWide /\ [][Next]_vars

(***************************************************************************)
(* Quantities the properties below are stated in.                          *)
(***************************************************************************)

\* the accepted points, as positions in the accumulators
Accepted == 1..Len(portfolio_weights)

\* the target the accepted point p was solved for
TargetOf(p) == solved[origin[p]].target

\* the weight vectors of the grid with sum(w) = 1, m.w = target, 0 <= w_i <= 1
Reference(target) ==
    {w \in [1..num_assets -> 0..Denom(num_assets)] :
        /\ Sum(w) = Denom(num_assets)
        /\ Dot(mean_returns, w) * (GridPoints - 1)
               = Denom(num_assets) * target}

DistinctMeans ==
    \A i, j \in 1..num_assets : i # j => mean_returns[i] # mean_returns[j]

\* C1: a successful result of optimize_portfolio has a variance no larger than
\* that of any weight vector with sum(w) = 1, m.w = r and 0 <= w_i <= 1
C1_MinimumVariance ==
    \A c \in 1..Len(solved) :
        solved[c].opt.success =>
            \A w \in Reference(solved[c].target) :
                min_variance(solved[c].opt.x, cov_matrix)
                    <= min_variance(w, cov_matrix)

\* C2: the weights of every accepted point sum to 1 within 1e-6 and every
\* weight lies in [0, 1]
C2_AcceptedFeasible ==
    \A p \in Accepted :
        LET w == portfolio_weights[p]
        IN  /\ Abs(Sum(w) - Denom(num_assets)) * AccInv <= Denom(num_assets)
            /\ \A i \in 1..num_assets : 0 <= w[i] /\ w[i] <= Denom(num_assets)

\* an accepted point with a weight at the lower bound, one with a weight at the
\* upper bound and one with a weight strictly between them
C2_Witness ==
    /\ pc = "done"
    /\ num_assets = 3
    /\ \E p \in Accepted : \E i \in 1..num_assets : portfolio_weights[p][i] = 0
    /\ \E p \in Accepted : \E i \in 1..num_assets :
           portfolio_weights[p][i] = Denom(num_assets)
    /\ \E p \in Accepted : \A i \in 1..num_assets :
           0 < portfolio_weights[p][i] /\ portfolio_weights[p][i] < Denom(num_assets)

\* C3: the realized return of every accepted point, as portfolio_performance
\* computed it, is within 1e-6 of the target passed to the solver for it
C3_ReturnOnTarget ==
    \A p \in Accepted :
        Abs(portfolio_returns[p] * (GridPoints - 1)
                - Denom(num_assets) * TargetOf(p)) * AccInv
            <= Denom(num_assets) * (GridPoints - 1) * MeanScale

\* all targets of a grid with distinct ends accepted, each at its own return
C3_Witness ==
    /\ pc = "done"
    /\ Len(portfolio_returns) = GridPoints
    /\ Min(mean_returns) < Max(mean_returns)
    /\ \A p \in Accepted :
           portfolio_returns[p] * (GridPoints - 1)
               = Denom(num_assets) * target_returns[p]

\* the calls whose solve ended without success
Failed == {c \in 1..Len(solved) : ~solved[c].opt.success}

\* C4: every return, risk and weight vector in the accumulators comes from a
\* solve that reported success, and is that solve's result
C4_OnlySuccessRecorded ==
    /\ Len(portfolio_returns) = Len(portfolio_weights)
    /\ Len(portfolio_variances) = Len(portfolio_weights)
    /\ Len(origin) = Len(portfolio_weights)
    /\ \A p \in Accepted :
           LET call == solved[origin[p]]
               perf == portfolio_performance(call.opt.x, mean_returns, cov_matrix)
           IN  /\ call.opt.success
               /\ call.opt.status = 0
               /\ portfolio_weights[p] = call.opt.x
               /\ portfolio_returns[p] = perf.ret
               /\ portfolio_variances[p] = npsqrt(perf.var)

\* a finished loop in which a failed solve lies between two accepted ones
C4_Witness ==
    /\ pc = "done"
    /\ \E a, f, b \in 1..Len(solved) :
           /\ a < f /\ f < b
           /\ f \in Failed
           /\ \E p \in Accepted : origin[p] = a
           /\ \E p \in Accepted : origin[p] = b

\* C5: the loop calls the solver on every grid target exactly once and in
\* order, whatever failed before, and when it has ended the accepted points
\* and the failed targets add up to the number of targets
C5_EveryTargetSolvedOnce ==
    /\ Len(solved) <= Len(target_returns)
    /\ \A c \in 1..Len(solved) : solved[c].target = target_returns[c]
    /\ pc = "loop" => Len(solved) = idx - 1 /\ idx <= Len(target_returns)
    /\ pc # "loop" =>
           /\ Len(solved) = Len(target_returns)
           /\ Len(portfolio_weights) + Cardinality(Failed) = Len(target_returns)

\* a finished loop whose first solve failed and whose last solve succeeded
C5_Witness ==
    /\ pc = "done"
    /\ Len(solved) = GridPoints
    /\ 1 \in Failed
    /\ GridPoints \notin Failed
    /\ Cardinality(Failed) >= 2

\* C6 as stated: every failed target is recorded together with its failure
\* reason.  The accumulators hold accepted points only; the printed lines are
\* the one record of a failure the loop makes.
C6_FailureRecordedWithReason ==
    pc = "done" =>
        \A c \in Failed :
            \E k \in 1..Len(stdout) :
                /\ stdout[k].target = solved[c].target
                /\ "reason" \in DOMAIN stdout[k]

\* C6 amended: every failed target is printed, in the order of the grid, on a
\* line that names the target; nothing else is recorded of it
C6_FailurePrinted ==
    /\ Len(stdout) = Cardinality(Failed)
    /\ \A k \in 1..Len(stdout) :
           /\ DOMAIN stdout[k] = {"text", "target"}
           /\ stdout[k].text = "Optimization failed for target return: "
           /\ \E c \in Failed :
                  /\ solved[c].target = stdout[k].target
                  /\ Cardinality({d \in Failed : d <= c}) = k
    /\ \A p \in Accepted : origin[p] \notin Failed

\* a finished loop with two failed targets printed and the others accepted
C6_Witness ==
    /\ pc = "done"
    /\ Len(stdout) = 2
    /\ stdout[1].target < stdout[2].target
    /\ Len(portfolio_weights) = GridPoints - 2

\* the targets strictly below min(m) or strictly above max(m)
OutOfRange(t) ==
    \/ t < Min(mean_returns) * (GridPoints - 1)
    \/ t > Max(mean_returns) * (GridPoints - 1)

C8_SortedFrontier ==
    pc = "done" =>
        /\ Len(sorted_indices) = Len(portfolio_variances)
        /\ Len(sorted_risks) = Len(portfolio_variances)
        /\ Len(sorted_returns) = Len(portfolio_variances)
        /\ \A p \in Accepted :
               Cardinality({k \in 1..Len(sorted_indices) : sorted_indices[k] = p}) = 1
        /\ \A k \in 1..(Len(sorted_risks) - 1) : sorted_risks[k] <= sorted_risks[k + 1]
        /\ \A k \in 1..Len(sorted_indices) :
               \E p \in Accepted :
                   /\ p = sorted_indices[k]
                   /\ sorted_risks[k] = portfolio_variances[p]
                   /\ sorted_returns[k] = portfolio_returns[p]

\* a sorted frontier of all grid targets, of pairwise different returns, whose
\* first and last positions hold neither the first nor the last accepted point
C8_Witness ==
    /\ pc = "done"
    /\ Len(sorted_indices) = GridPoints
    /\ \A p, q \in Accepted : p # q => portfolio_returns[p] # portfolio_returns[q]
    /\ sorted_indices[1] \notin {1, GridPoints}
    /\ sorted_indices[GridPoints] # GridPoints

\* C9: when every solve of the grid converged and the asset means are pairwise
\* distinct, the return is non-decreasing along the frontier sorted by risk
C9_ReturnNonDecreasing ==
    (pc = "done" /\ Failed = {} /\ DistinctMeans) =>
        \A k \in 1..(Len(sorted_returns) - 1) :
            sorted_returns[k] <= sorted_returns[k + 1]

\* C10: with two assets of distinct means the two equality constraints leave
\* one weight vector, which does not depend on cov_matrix, and the solver
\* returns it; in the scenario m = [0.001, 0.002], C = [[0.0001, 0],
\* [0, 0.0004]], target = 0.0015 it is [0.5, 0.5], of variance 0.000125
C10_TwoAssetsDetermined ==
    (num_assets = 2 /\ DistinctMeans) =>
        \A c \in 1..Len(solved) :
            LET t == solved[c].target
                x == solved[c].opt.x
                D == Denom(num_assets)
            IN  /\ Cardinality(Reference(t)) = 1
                /\ solved[c].opt.success
                /\ x[1] + x[2] = D
                /\ x[2] * (mean_returns[2] - mean_returns[1]) * (GridPoints - 1)
                       = D * (t - mean_returns[1] * (GridPoints - 1))
                /\ (mean_returns = Scenario2.mean /\ cov_matrix = Scenario2.cov
                      /\ 2 * t = 3 * (GridPoints - 1)) =>
                       /\ 2 * x[1] = D /\ 2 * x[2] = D
                       /\ portfolio_performance(x, mean_returns, cov_matrix).var
                              * 1000000 = 125 * D * D * CovScale

\* the scenario's grid solved, its target 0.0015 among the targets
C10_Witness ==
    /\ pc = "done"
    /\ mean_returns = Scenario2.mean
    /\ cov_matrix = Scenario2.cov
    /\ \E c \in 1..Len(solved) :
           /\ 2 * solved[c].target = 3 * (GridPoints - 1)
           /\ solved[c].opt.success
           /\ \E p \in Accepted : origin[p] = c


(***************************************************************************)
(* The first solve of the loop: the target min(m).                         *)
(***************************************************************************)

\* the assets whose mean is the least one
MinAssets == {a \in 1..num_assets : mean_returns[a] = Min(mean_returns)}

\* the whole portfolio in asset a
AllIn(a) == [i \in 1..num_assets |-> IF i = a THEN Denom(num_assets) ELSE 0]

\* C11: the solve for the first grid target, min(m), succeeds with
\* m.w = min(m), sum(w) = 1 and every weight in [0, 1]; when a single asset
\* has the least mean the result is the whole portfolio in that asset
C11_FirstTargetAtMinimum ==
    Len(solved) >= 1 =>
        LET c == solved[1]
            D == Denom(num_assets)
        IN  /\ c.target = Min(mean_returns) * (GridPoints - 1)
            /\ c.opt.success
            /\ Dot(mean_returns, c.opt.x) = D * Min(mean_returns)
            /\ Sum(c.opt.x) = D
            /\ \A i \in 1..num_assets : c.opt.x[i] >= 0 /\ c.opt.x[i] <= D
            /\ \A a \in MinAssets : MinAssets = {a} => c.opt.x = AllIn(a)

\* three assets, one of them alone at the least mean, the first solve done:
\* the start (1/3, 1/3, 1/3) has been moved to the vertex
C11_Witness ==
    /\ num_assets = 3
    /\ Cardinality(MinAssets) = 1
    /\ Len(solved) >= 1
    /\ solved[1].opt.success
    /\ solved[1].opt.x = AllIn(1)
    /\ solved[1].opt.x # init_guess(3)


(***************************************************************************)
(* The grid of targets.                                                    *)
(***************************************************************************)

\* C12: the grid has GridPoints values, from min(m) to max(m), each step the
\* same, in ascending order (strictly when min(m) < max(m)), all of them
\* within [min(m), max(m)]
C12_GridEvenlySpaced ==
    LET lo == Min(mean_returns) * (GridPoints - 1)
        hi == Max(mean_returns) * (GridPoints - 1)
    IN  /\ Len(target_returns) = GridPoints
        /\ target_returns[1] = lo
        /\ target_returns[GridPoints] = hi
        /\ \A j \in 1..(GridPoints - 1) :
              /\ target_returns[j] <= target_returns[j + 1]
              /\ lo < hi => target_returns[j] < target_returns[j + 1]
              /\ target_returns[j + 1] - target_returns[j]
                     = target_returns[2] - target_returns[1]
        /\ \A j \in 1..GridPoints :
              target_returns[j] >= lo /\ target_returns[j] <= hi

\* a grid of distinct targets over three assets, every target of it solved
C12_Witness ==
    /\ num_assets = 3
    /\ Min(mean_returns) < Max(mean_returns)
    /\ target_returns[2] - target_returns[1] = Max(mean_returns) - Min(mean_returns)
    /\ Len(solved) = GridPoints
    /\ \A j \in 1..GridPoints : solved[j].target = target_returns[j]


(***************************************************************************)
(* Calls of optimize_portfolio do not depend on one another.               *)
(***************************************************************************)

LiveUniverses ==
    {u \in LoopUniverses :
        /\ \A i, j \in 1..Len(u.mean) : u.cov[i][j] = IF i = j THEN 1 ELSE 0
        /\ Len(u.mean) = 3 => u.mean[1] < u.mean[2] /\ u.mean[2] < u.mean[3]}

InitLive == \E u \in LiveUniverses : InitWith(u, grid(u.mean))

SpecLive == InitLive /\ [][NextNum]_vars /\ WF_vars(NextNum)

\* the calls that ended at the iteration limit
AtLimit == {c \in 1..Len(solved) : solved[c].opt.status = 9}

\* C14: every call ends with one of the solver's exit modes; a call that ends
\* at the iteration limit is a failure of its own target alone (no point is
\* recorded for it, and the calls for the other targets converge and are
\* recorded), and the loop over the grid finishes with every target solved
\* and the frontier sorted
C14_SolvesEndBatchFinishes ==
    /\ [](/\ \A c \in 1..Len(solved) :
                /\ solved[c].opt.status \in {0, 4, 9}
                /\ c \in AtLimit =>
                      /\ ~solved[c].opt.success
                      /\ \A p \in 1..Len(origin) : origin[p] # c
          /\ \A d \in 1..Len(solved) :
                d \notin AtLimit =>
                    /\ solved[d].opt.success
                    /\ \E p \in 1..Len(origin) : origin[p] = d)
    /\ <>[](pc = "done" /\ Len(solved) = Len(target_returns))

\* a finished run in which the first call ended at the iteration limit and
\* every later call converged and was recorded
C14_Witness ==
    /\ pc = "done"
    /\ num_assets = 3
    /\ Min(mean_returns) < Max(mean_returns)
    /\ AtLimit = {1}
    /\ Len(solved) = GridPoints
    /\ Len(portfolio_weights) = GridPoints - 1
    /\ \A d \in 2..GridPoints : solved[d].opt.success


(***************************************************************************)
(* The statistics cell: returns.mean() and returns.cov() of a returns      *)
(* matrix of T rows (periods), entries in units 1 / RetScale.  pandas      *)
(* raises nothing on short data: the mean of no rows and the covariance of *)
(* fewer than two rows are NaN.                                            *)
(***************************************************************************)

\* returns are multiples of 1e-2, so that their products are in units 1e-4
RetScale == 100

PeriodCounts == {0, 1, 2}
ReturnValues == {-2, 0, 2}

ColSum(R, i) == SumTo([t \in 1..Len(R) |-> R[t][i]], Len(R))

\* returns.mean(): the column means, in units 1 / MeanScale
returns_mean(R, n) ==
    IF Len(R) = 0 THEN [i \in 1..n |-> NaN]
    ELSE [i \in 1..n |-> ((MeanScale \div RetScale) * ColSum(R, i)) \div Len(R)]

\* T^2 (T - 1) times the sample covariance of the columns i and j
CoMoment(R, i, j) ==
    LET T == Len(R)
    IN  SumTo([t \in 1..T |-> (T * R[t][i] - ColSum(R, i))
                                 * (T * R[t][j] - ColSum(R, j))], T)

\* returns.cov(): the sample covariance (divisor T - 1), in units 1 / CovScale
returns_cov(R, n) ==
    IF Len(R) < 2 THEN [i \in 1..n |-> [j \in 1..n |-> NaN]]
    ELSE [i \in 1..n |-> [j \in 1..n |->
            CoMoment(R, i, j) \div (Len(R) * Len(R) * (Len(R) - 1))]]

\* the returns matrices of two assets whose statistics are whole numbers of
\* the units
ReturnsMatrices ==
    {R \in UNION {[1..T -> [1..2 -> ReturnValues]] : T \in PeriodCounts} :
        Len(R) >= 1 =>
            /\ \A i \in 1..2 :
                  ((MeanScale \div RetScale) * ColSum(R, i)) % Len(R) = 0
            /\ Len(R) >= 2 =>
                  \A i, j \in 1..2 :
                      CoMoment(R, i, j) % (Len(R) * Len(R) * (Len(R) - 1)) = 0}

HasNaN(C) == \E i, j \in 1..Len(C) : C[i][j] = NaN

\* np.linspace of the least and the largest mean; NaN when the means are
grid_of(mean) ==
    IF mean[1] = NaN THEN [j \in 1..GridPoints |-> NaN] ELSE grid(mean)

InitData ==
    \E R \in ReturnsMatrices :
        InitWith([mean |-> returns_mean(R, 2), cov |-> returns_cov(R, 2)],
                 grid_of(returns_mean(R, 2)))

\* what minimize returns for an objective that is NaN everywhere is left
\* open by the notebook: it may report success or not, with x NaN or, when
\* the first subproblem fails, x still the start
NaNOutcomes(n) ==
    {[success |-> TRUE, status |-> 0, x |-> [i \in 1..n |-> NaN]],
     [success |-> FALSE, status |-> 9, x |-> [i \in 1..n |-> NaN]],
     [success |-> FALSE, status |-> 4, x |-> init_guess(n)]}

\* one iteration of the loop on statistics that are NaN
IterateNaN ==
    /\ pc = "loop"
    /\ idx <= Len(target_returns)
    /\ HasNaN(cov_matrix)
    /\ \E opt \in NaNOutcomes(num_assets) : LoopBody(opt, NaN, NaN)

NextData == (~HasNaN(cov_matrix) /\ Iterate(TRUE)) \/ IterateNaN \/ Sort

SpecData == InitData /\ [][NextData]_vars

\* fewer than two periods: returns.cov() is NaN exactly then
InsufficientData == HasNaN(cov_matrix)

\* C15: with fewer than two periods of returns the run ends before the
\* loop: optimize_portfolio is never called and no frontier point exists
C15_NoSolveOnInsufficientData ==
    InsufficientData =>
        /\ solved = <<>>
        /\ portfolio_weights = <<>>
        /\ pc = "loop" /\ idx = 1


(***************************************************************************)
(* The loop in floating point.  w.T C w is a sum of products; where the    *)
(* exact value is 0 by cancellation of terms of both signs, the computed   *)
(* value is 0 or a value within rounding of it, of either sign.  np.sqrt   *)
(* depends on the sign alone at that size.                                 *)
(***************************************************************************)

\* w.T C w is exactly 0 and has a negative term
Cancels(w, cov) ==
    /\ Dot(w, MatVec(cov, w)) = 0
    /\ \E i, j \in 1..Len(w) : w[i] * cov[i][j] * w[j] < 0

\* the values np.dot(weights.T, np.dot(cov_matrix, weights)) can have, -1
\* standing for a negative value within rounding of 0
float_variance(w, cov) ==
    {Dot(w, MatVec(cov, w))} \cup (IF Cancels(w, cov) THEN {-1} ELSE {})

InitFloat ==
    \E R \in ReturnsMatrices :
        /\ Len(R) >= 2
        /\ InitWith([mean |-> returns_mean(R, 2), cov |-> returns_cov(R, 2)],
                    grid(returns_mean(R, 2)))

\* one iteration of the loop with the variance as computed
IterateFloat ==
    /\ pc = "loop"
    /\ idx <= Len(target_returns)
    /\ \E opt \in {call_optimize(target_returns[idx])} :
       \E var \in float_variance(opt.x, cov_matrix) :
           LoopBody(opt, Dot(mean_returns, opt.x), npsqrt(var))

NextFloat == IterateFloat \/ Sort

SpecFloat == InitFloat /\ [][NextFloat]_vars

\* C16: every recorded risk is the square root of a variance clamped to 0:
\* a number, and not negative
C16_RiskOfClampedVariance ==
    \A p \in 1..Len(portfolio_variances) :
        portfolio_variances[p] # NaN /\ portfolio_variances[p] >= 0


(***************************************************************************)
(* What the last cell leaves for its reader: the sorted frontier, the      *)
(* array of weights and the report of sample weights.                      *)
(***************************************************************************)

\* C18: after the sort, the weight vector at position i is the portfolio of
\* the frontier point at position i: its return and its risk are
\* sorted_returns[i] and sorted_risks[i]
C18_WeightsAlignedWithFrontier ==
    pc = "done" =>
        \A i \in 1..Len(sorted_risks) :
            LET perf == portfolio_performance(portfolio_weights[i],
                                              mean_returns, cov_matrix)
            IN  /\ perf.ret = sorted_returns[i]
                /\ npsqrt(perf.var) = sorted_risks[i]

\* C19: every line of the report prints the target that the weights printed
\* on the line were solved for
C19_ReportTargetMatchesWeights ==
    pc = "done" /\ Len(portfolio_weights) >= 1 =>
        \A j \in 1..Len(report) :
            LET i == sample_indices(Len(portfolio_weights))[j]
            IN  /\ report[j].weights = portfolio_weights[i]
                /\ report[j].target = fmt4(TargetOf(i))


(***************************************************************************)
(* The notebook's own run: the five tickers and the statistics it prints,  *)
(* rounded to the units of the model, and the runs on every selection of   *)
(* at least two of the tickers.                                            *)
(***************************************************************************)

\* tickers = ['AAPL', 'JPM', 'XOM', 'PG', 'NVDA']
tickers == <<"AAPL", "JPM", "XOM", "PG", "NVDA">>

\* the columns of data, returns, mean_returns and cov_matrix, as printed
columns == <<"AAPL", "JPM", "NVDA", "PG", "XOM">>

\* print(mean_returns): 0.001187, 0.000541, 0.002685, 0.000367, 0.000825
NotebookMean == <<1, 1, 3, 0, 1>>

\* print(cov_matrix)
NotebookCov ==
    <<<<4, 2, 5, 1, 2>>,
      <<2, 5, 3, 1, 3>>,
      <<5, 3, 12, 1, 2>>,
      <<1, 1, 1, 2, 1>>,
      <<2, 3, 2, 1, 6>>>>

\* the elements of a set of numbers in ascending order
RECURSIVE Ascending(_)
Ascending(S) ==
    IF S = {} THEN <<>>
    ELSE LET m == CHOOSE x \in S : \A y \in S : x <= y
         IN  <<m>> \o Ascending(S \ {m})

\* the statistics of the columns S
Selection(S) ==
    LET c == Ascending(S)
    IN  [mean |-> [k \in 1..Len(c) |-> NotebookMean[c[k]]],
         cov |-> [k \in 1..Len(c) |-> [l \in 1..Len(c) |->
                    NotebookCov[c[k]][c[l]]]]]

NotebookUniverses ==
    {Selection(S) : S \in {S \in SUBSET (1..Len(columns)) : Cardinality(S) >= 2}}

InitNotebook == \E u \in NotebookUniverses : InitWith(u, grid(u.mean))

SpecNotebook == InitNotebook /\ [][Next]_vars

\* the position of a ticker in a list of tickers
PositionOf(name, list) == CHOOSE i \in 1..Len(list) : list[i] = name

\* the assets whose mean is the largest one
MaxAssets ==
    {a \in 1..num_assets : \A b \in 1..num_assets :
        mean_returns[b] <= mean_returns[a]}

====
